---- MODULE Spec2Model ----
(***************************************************************************)
(* Model of scripts/setup_issue_label.py: one run of main().               *)
(*                                                                         *)
(* The run validates three environment variables at import time, builds a  *)
(* GithubIssueLabel (fetching the remote labels page by page, then loading *)
(* the labels of the config directory), deletes the default labels and     *)
(* creates or updates the loaded labels.  The remote is a label store      *)
(* that applies the requests it accepts; any request may also fail         *)
(* without effect.  Every request sent is appended to log.                 *)
(*                                                                         *)
(* Strings that the code takes apart are sequences of tokens: a colour is  *)
(* a sequence of characters, a file name a sequence of tokens whose        *)
(* concatenation is the name, a path a sequence of components.             *)
(***************************************************************************)
EXTENDS Integers, Sequences, FiniteSets, TLC

\* Bounds of the explored inputs.
MaxRemote == 2
MaxFiles == 2
MaxPageSize == 1

\* ----------------------------------------------------------------- helpers

SeqsUpTo(S, n) == UNION {[1..k -> S] : k \in 0..n}

\* In, with the membership test lost
In_always(x, s) == TRUE

\* Python: x in list
In(x, s) == \E i \in 1..Len(s) : s[i] = x

\* Python: list.index(x), the first position holding x
Index(s, x) == CHOOSE i \in 1..Len(s) : s[i] = x /\ \A j \in 1..(i - 1) : s[j] # x

\* Python: dict.get(key, default)
Get(d, key, default) == IF key \in DOMAIN d THEN d[key] ELSE default

\* Python: str.replace("#", "") on a colour: every "#" goes, not only a leading one
StripHash(color) == SelectSeq(color, LAMBDA c : c # "#")

\* Python: f.endswith(suffix), f.startswith(prefix) on a tokenised file name
EndsWith(f, suffix) == Len(f) > 0 /\ f[Len(f)] = suffix
StartsWith(f, prefix) == Len(f) > 0 /\ f[1] = prefix

\* os.path.join of relative components: an empty component adds nothing
PathJoin(a, b) == a \o b

\* ------------------------------------------------------------ configuration

\* per_page of _fetch_github_labels
per_page == 100

\* DEFAULT_LABEL_NAMES, with a label of the repository's own among the defaults
DEFAULT_LABEL_NAMES_wide ==
  << "bug", "dependencies", "documentation", "duplicate", "enhancement", "feature",
     "github_actions", "help wanted", "invalid", "python", "question", "wontfix" >>

DEFAULT_LABEL_NAMES ==
  << "bug", "dependencies", "documentation", "duplicate", "enhancement",
     "github_actions", "help wanted", "invalid", "python", "question", "wontfix" >>

ENV_NAMES == << "GITHUB_PERSONAL_ACCESS_TOKEN", "GITHUB_REPO_OWNER", "GITHUB_REPO_NAME" >>

\* BasePath.LABELS and label_dir of _load_labels_from_config
LabelDir == << <<"labels">> >>

\* LabelFile._BASE_FILE, YAML and JSON for a given BasePath.CWD (dirname(__file__)):
\* the suffix is appended to the last component
BaseFile(cwd) == PathJoin(PathJoin(PathJoin(cwd, << <<"..">> >>), LabelDir), << <<"labels">> >>)
WithSuffix(path, suffix) ==
  [path EXCEPT ![Len(path)] = Append(path[Len(path)], suffix)]
LabelFileYAML(cwd) == WithSuffix(BaseFile(cwd), ".yaml")
LabelFileJSON(cwd) == WithSuffix(BaseFile(cwd), ".json")

\* ------------------------------------------------------------------ inputs

\* Values of os.path.dirname(__file__): "", "scripts", "/repo/scripts"
Dirnames == { <<>>, << <<"scripts">> >>, << <<"">>, <<"repo">>, <<"scripts">> >> }

Colors == { <<"f">>, <<"0">> }
RemoteNames == { "bug", "wontfix", "feature" }

\* A label object as the listing endpoint returns it (more fields than the three kept)
RemoteObjects == [name : RemoteNames, color : Colors, description : {"d"}, url : {"u"}]

Remotes ==
  { r \in SeqsUpTo(RemoteObjects, MaxRemote) :
      \A i, j \in 1..Len(r) : r[i].name = r[j].name => i = j }

\* Raw records of a config file (a mapping may lack any key)
RawFeature == [name |-> "feature", color |-> <<"#", "f">>, description |-> "d"]
RawBug == [name |-> "bug", color |-> <<"#", "f">>, description |-> "d"]
RawWontfix == [name |-> "wontfix", color |-> <<"0">>]
RawNew == [name |-> "triage", description |-> "d"]
RawNoName == [color |-> <<"#", "f">>, description |-> "d"]

Contents == { << RawFeature, RawBug >>, << RawNew, RawNoName, RawWontfix >> }

FileNames ==
  { <<"labels", ".yaml">>, <<"labels", ".json">>, <<"extra", ".yaml">>,
    <<"_remove", "labels", ".yaml">> }

\* The label directory: its entries in os.listdir order, each with its records
FileSystems ==
  { f \in SeqsUpTo([name : FileNames, records : Contents], MaxFiles) :
      \A i, j \in 1..Len(f) : f[i].name = f[j].name => i = j }

VARIABLES
  pc,                  \* where the run is
  env_i,               \* which validate_env call of GithubConfig is next
  remote,              \* the remote's labels when the run starts
  store,               \* the remote's labels now
  page_size,           \* how many labels the remote puts on a page
  page,                \* _fetch_github_labels: page
  raw_labels,          \* _fetch_github_labels: github_labels (the accumulator)
  github_labels,       \* self._github_labels
  github_label_names,  \* self._github_label_names
  fs,                  \* the label directory as _load_labels_from_config found it
  labels,              \* self._labels
  di,                  \* delete_default_labels: position in DEFAULT_LABEL_NAMES
  li,                  \* create_labels: position in self.labels
  log,                 \* the requests sent, in order, with their responses
  error                \* the logged fatal error, "none" while there is none

vars ==
  << pc, env_i, remote, store, page_size, page, raw_labels, github_labels,
     github_label_names, fs, labels, di, li, log, error >>

Request(method, name, pg, body, status, resp) ==
  [method |-> method, name |-> name, page |-> pg, per_page |-> IF method = "GET" THEN per_page ELSE 0,
   body |-> body, status |-> status, resp |-> resp]

Init ==
  /\ pc = "import"
  /\ env_i = 1
  /\ remote \in Remotes
  /\ store = remote
  /\ page_size \in 1..MaxPageSize
  /\ page = 1
  /\ raw_labels = <<>>
  /\ github_labels = <<>>
  /\ github_label_names = <<>>
  /\ fs = <<>>
  /\ labels = <<>>
  /\ di = 1
  /\ li = 1
  /\ log = <<>>
  /\ error = "none"

\* -------------------------------------------------------------- the remote

Min(a, b) == IF a < b THEN a ELSE b

\* GET /labels?page=p: the p-th page of the store
ServerPage(s, p, size) == SubSeq(s, (p - 1) * size + 1, Min(p * size, Len(s)))

HasName(s, name) == \E i \in 1..Len(s) : s[i].name = name

\* DELETE /labels/{name}
ServerDelete(s, name, ok) ==
  IF ~ok THEN [store |-> s, status |-> 500]
  ELSE IF HasName(s, name)
    THEN [store |-> SelectSeq(s, LAMBDA l : l.name # name), status |-> 204]
    ELSE [store |-> s, status |-> 404]

\* POST /labels
ServerCreate(s, body, ok) ==
  IF ~ok THEN [store |-> s, status |-> 500]
  ELSE IF HasName(s, body.name)
    THEN [store |-> s, status |-> 422]
    ELSE [store |-> Append(s, [name |-> body.name, color |-> body.color,
                               description |-> body.description, url |-> "u"]),
          status |-> 201]

\* PATCH /labels/{name}
ServerUpdate(s, name, body, ok) ==
  IF ~ok THEN [store |-> s, status |-> 500]
  ELSE IF HasName(s, name)
    THEN [store |->
            [i \in 1..Len(s) |->
               IF s[i].name = name
                 THEN [s[i] EXCEPT !.name = body.new_name, !.color = body.color,
                                   !.description = body.description]
                 ELSE s[i]],
          status |-> 200]
    ELSE [store |-> s, status |-> 404]

\* ------------------------------------------------------------- the program

\* validate_env, called three times while GithubConfig is defined (lines 56-58)
validate_env ==
  /\ pc = "import"
  /\ \E is_set \in BOOLEAN :
       IF ~is_set
         THEN /\ error' = "env"
              /\ pc' = "exit"
              /\ env_i' = env_i
         ELSE /\ error' = error
              /\ env_i' = env_i + 1
              /\ pc' = IF env_i = Len(ENV_NAMES) THEN "fetch" ELSE "import"
  /\ UNCHANGED << remote, store, page_size, page, raw_labels, github_labels,
                  github_label_names, fs, labels, di, li, log >>

\* NextPage, skipping a page
NextPage_skip(p) == p + 2

\* page += 1
NextPage(p) == p + 1

\* the returned list: each label reduced to name, color and description
ReduceLabels(raw) ==
  [i \in 1..Len(raw) |->
     [name |-> raw[i].name, color |-> raw[i].color, description |-> raw[i].description]]

\* self._github_label_names
LabelNames(ls) == [i \in 1..Len(ls) |-> ls[i].name]

\* One turn of the while loop of _fetch_github_labels; on the empty page the
\* method returns and __init__ sets _github_labels and _github_label_names.
fetch_github_labels ==
  /\ pc = "fetch"
  /\ \E status \in {200, 500} :
       LET resp == IF status = 200 THEN ServerPage(store, page, page_size) ELSE <<>> IN
       /\ log' = Append(log, Request("GET", "", page, <<>>, status, resp))
       /\ IF status # 200
            THEN /\ error' = "fetch"
                 /\ pc' = "exit"
                 /\ UNCHANGED << page, raw_labels, github_labels, github_label_names >>
            ELSE IF resp = <<>>
              THEN /\ github_labels' = ReduceLabels(raw_labels)
                   /\ github_label_names' = LabelNames(ReduceLabels(raw_labels))
                   /\ pc' = "load"
                   /\ UNCHANGED << page, raw_labels, error >>
              ELSE /\ raw_labels' = raw_labels \o resp
                   /\ page' = NextPage(page)
                   /\ UNCHANGED << pc, github_labels, github_label_names, error >>
  /\ UNCHANGED << env_i, remote, store, page_size, fs, labels, di, li >>

\* not label.get("name")
NameMissing(label) == Get(label, "name", "") = ""

\* the record appended to labels (lines 183-189)
Normalize(label) ==
  [name |-> label.name,
   color |-> StripHash(Get(label, "color", <<>>)),
   description |-> Get(label, "description", "")]

\* the loop over use_labels (lines 176-189): the labels appended to acc, and
\* ok = FALSE when a record without a name ended the run
RECURSIVE AppendLabels(_, _)
AppendLabels(use_labels, acc) ==
  IF use_labels = <<>> THEN [labels |-> acc, ok |-> TRUE]
  ELSE IF NameMissing(Head(use_labels)) THEN [labels |-> acc, ok |-> FALSE]
  ELSE AppendLabels(Tail(use_labels), Append(acc, Normalize(Head(use_labels))))

\* lines 168-174: the file is parsed only when its path equals LabelFile.YAML or
\* LabelFile.JSON; otherwise use_labels keeps its value.  label_file has two
\* components (labels/<name>) and both constants have at least three
\* (<cwd>/../labels/labels.<ext>), so neither equality holds for any cwd.
ParseFile(entry, cwd, use_labels) ==
  LET label_file == PathJoin(LabelDir, << entry.name >>) IN
  IF label_file = LabelFileYAML(cwd) THEN entry.records
  ELSE IF label_file = LabelFileJSON(cwd) THEN entry.records
  ELSE use_labels

\* the loop over label_filenames (lines 166-189)
RECURSIVE LoadFiles(_, _, _, _)
LoadFiles(entries, cwd, use_labels, acc) ==
  IF entries = <<>> THEN [labels |-> acc, error |-> "none"]
  ELSE LET parsed == ParseFile(Head(entries), cwd, use_labels)
           r == AppendLabels(parsed, acc)
       IN IF ~r.ok THEN [labels |-> r.labels, error |-> "name"]
          ELSE LoadFiles(Tail(entries), cwd, parsed, r.labels)

IsYaml(e) == EndsWith(e.name, ".yaml") /\ ~StartsWith(e.name, "_remove")
IsJson(e) == EndsWith(e.name, ".json") /\ ~StartsWith(e.name, "_remove")

\* _load_labels_from_config on directory f, with BasePath.CWD = cwd
LoadLabelsFromConfig(f, cwd) ==
  LET yaml_filenames == SelectSeq(f, IsYaml)
      json_filenames == SelectSeq(f, IsJson)
  IN IF yaml_filenames # <<>> THEN LoadFiles(yaml_filenames, cwd, <<>>, <<>>)
     ELSE IF json_filenames # <<>> THEN LoadFiles(json_filenames, cwd, <<>>, <<>>)
     ELSE [labels |-> <<>>, error |-> "config"]

load_labels_from_config ==
  /\ pc = "load"
  /\ \E f \in FileSystems, cwd \in Dirnames :
       LET r == LoadLabelsFromConfig(f, cwd) IN
       /\ fs' = f
       /\ error' = r.error
       /\ IF r.error # "none"
            THEN pc' = "exit" /\ labels' = labels
            ELSE pc' = "delete_default_labels" /\ labels' = r.labels
  /\ UNCHANGED << env_i, remote, store, page_size, page, raw_labels, github_labels,
                  github_label_names, di, li, log >>

\* One turn of the loop of delete_default_labels; past the last name the
\* method returns and main calls create_labels.
delete_default_labels ==
  /\ pc = "delete_default_labels"
  /\ IF di > Len(DEFAULT_LABEL_NAMES)
       THEN /\ pc' = "create_labels"
            /\ UNCHANGED << di, store, log >>
       ELSE /\ pc' = pc
            /\ di' = di + 1
            /\ IF In(DEFAULT_LABEL_NAMES[di], github_label_names)
                 THEN \E ok \in BOOLEAN :
                        LET r == ServerDelete(store, DEFAULT_LABEL_NAMES[di], ok) IN
                        /\ store' = r.store
                        /\ log' = Append(log, Request("DELETE", DEFAULT_LABEL_NAMES[di], 0,
                                                      <<>>, r.status, <<>>))
                 ELSE UNCHANGED << store, log >>
  /\ UNCHANGED << env_i, remote, page_size, page, raw_labels, github_labels,
                  github_label_names, fs, labels, li, error >>

\* _update_label: label["new_name"] = label.pop("name"); the dict is the body
UpdateBody(label) ==
  [new_name |-> label.name, color |-> label.color, description |-> label.description]

\* lines 242-245
NeedsUpdate(label, github_label) ==
  \/ label.color # github_label.color
  \/ label.description # github_label.description

\* One turn of the loop of create_labels; past the last label the method
\* returns to main.
create_labels ==
  /\ pc = "create_labels"
  /\ IF li > Len(labels)
       THEN /\ pc' = "returned"
            /\ UNCHANGED << li, labels, store, log >>
       ELSE /\ pc' = pc
            /\ li' = li + 1
            /\ IF In(labels[li].name, github_label_names)
                 THEN IF NeedsUpdate(labels[li],
                                     github_labels[Index(github_label_names, labels[li].name)])
                        THEN \E ok \in BOOLEAN :
                               LET r == ServerUpdate(store, labels[li].name,
                                                     UpdateBody(labels[li]), ok) IN
                               /\ store' = r.store
                               /\ labels' = [labels EXCEPT ![li] = UpdateBody(labels[li])]
                               /\ log' = Append(log, Request("PATCH", labels[li].name, 0,
                                                             << UpdateBody(labels[li]) >>,
                                                             r.status, <<>>))
                        ELSE UNCHANGED << labels, store, log >>
                 ELSE \E ok \in BOOLEAN :
                        LET r == ServerCreate(store, labels[li], ok) IN
                        /\ store' = r.store
                        /\ labels' = labels
                        /\ log' = Append(log, Request("POST", "", 0, << labels[li] >>,
                                                      r.status, <<>>))
  /\ UNCHANGED << env_i, remote, page_size, page, raw_labels, github_labels,
                  github_label_names, fs, di, error >>

\* main, line 267: "Label creation process completed."
main_completed ==
  /\ pc = "returned"
  /\ pc' = "completed"
  /\ UNCHANGED << env_i, remote, store, page_size, page, raw_labels, github_labels,
                  github_label_names, fs, labels, di, li, log, error >>

Next ==
  \/ validate_env
  \/ fetch_github_labels
  \/ load_labels_from_config
  \/ delete_default_labels
  \/ create_labels
  \/ main_completed

Spec == Init /\ [][Next]_vars

\* The run is sequential and every step that can be taken is taken.
FairSpec == Spec /\ WF_vars(Next)

\* ------------------------------------------------- the specification's terms

\* Concatenation of a sequence of sequences
RECURSIVE Flatten(_)
Flatten(ss) == IF ss = <<>> THEN <<>> ELSE Head(ss) \o Flatten(Tail(ss))

\* The default list as the specification gives it
SpecDefaultNames ==
  { "bug", "dependencies", "documentation", "duplicate", "enhancement", "github_actions",
    "help wanted", "invalid", "python", "question", "wontfix" }

\* Config Loader: the files selected, and a record normalized
SelectedFiles(f) ==
  IF SelectSeq(f, IsYaml) # <<>> THEN SelectSeq(f, IsYaml) ELSE SelectSeq(f, IsJson)

SpecColor(c) == IF c # <<>> /\ c[1] = "#" THEN Tail(c) ELSE c

SpecRecord(rec) ==
  [name |-> Get(rec, "name", ""),
   color |-> SpecColor(Get(rec, "color", <<>>)),
   description |-> Get(rec, "description", "")]

\* The DesiredLabelSet of a directory: the normalized records of the selected
\* files, in file order and in-file order
DesiredLabelSet(f) ==
  LET sel == SelectedFiles(f) IN
  Flatten([i \in 1..Len(sel) |->
             [j \in 1..Len(sel[i].records) |-> SpecRecord(sel[i].records[j])]])

\* A directory that must end the run: nothing to select, or a record without a name
ConfigFatal(f) ==
  LET D == DesiredLabelSet(f) IN
  \/ SelectedFiles(f) = <<>>
  \/ \E i \in 1..Len(D) : D[i].name = ""

ConfigRead == pc \notin {"import", "fetch", "load"}

Gets == SelectSeq(log, LAMBDA q : q.method = "GET")
Mutations == SelectSeq(log, LAMBDA q : q.method # "GET")
Deletes(n) == SelectSeq(log, LAMBDA q : q.method = "DELETE" /\ q.name = n)
Creates(n) == SelectSeq(log, LAMBDA q : q.method = "POST" /\ q.body[1].name = n)
Updates(n) == SelectSeq(log, LAMBDA q : q.method = "PATCH" /\ q.name = n)
Touches(n) ==
  SelectSeq(log, LAMBDA q :
    \/ q.method \in {"DELETE", "PATCH"} /\ q.name = n
    \/ q.method = "POST" /\ q.body[1].name = n
    \/ q.method = "PATCH" /\ q.body[1].new_name = n)

Succeeded(q) ==
  \/ q.method = "GET" /\ q.status = 200
  \/ q.method = "DELETE" /\ q.status = 204
  \/ q.method = "POST" /\ q.status = 201
  \/ q.method = "PATCH" /\ q.status = 200

\* The entry of the remote set with this name, first by position
RemoteEntry(n) == remote[CHOOSE i \in 1..Len(remote) :
                           remote[i].name = n /\ \A j \in 1..(i - 1) : remote[j].name # n]

SameAttributes(d, r) == d.color = r.color /\ d.description = r.description

FetchReturned ==
  \/ pc \in {"load", "delete_default_labels", "create_labels", "returned", "completed"}
  \/ pc = "exit" /\ error \in {"config", "name"}

DeletionOver == pc \in {"create_labels", "returned", "completed"}

\* ------------------------------------------------------------------ claims

\* C1: in a completed run, every name of the DesiredLabelSet that the remote
\* set lacks got exactly one create request, whose body is the config entry's
\* name, color and description.
C1_OneCreatePerMissingName ==
  LET D == DesiredLabelSet(fs) IN
  pc = "completed" =>
    \A i \in 1..Len(D) :
      ~HasName(remote, D[i].name) =>
        /\ Len(Creates(D[i].name)) = 1
        /\ Creates(D[i].name)[1].body = << D[i] >>

\* C2 as stated: no name of the DesiredLabelSet whose color and description
\* equal those of the same-named remote entry is the target of any create,
\* update or delete request.
C2_Original ==
  LET D == DesiredLabelSet(fs) IN
  \A i \in 1..Len(D) :
    (/\ HasName(remote, D[i].name)
     /\ SameAttributes(D[i], RemoteEntry(D[i].name)))
    => Touches(D[i].name) = <<>>

\* C2 amended: a name of the DesiredLabelSet that is not in the default list
\* and whose color and description equal those of the same-named remote entry
\* is the target of no create, update or delete request.
C2_UnchangedNonDefaultUntouched ==
  LET D == DesiredLabelSet(fs) IN
  \A i \in 1..Len(D) :
    (/\ D[i].name \notin SpecDefaultNames
     /\ HasName(remote, D[i].name)
     /\ SameAttributes(D[i], RemoteEntry(D[i].name)))
    => Touches(D[i].name) = <<>>

\* C2 witness: a completed run that sent mutation requests, with an unchanged
\* non-default label in its config.
C2_Witness ==
  LET D == DesiredLabelSet(fs) IN
  /\ pc = "completed"
  /\ Mutations # <<>>
  /\ \E i \in 1..Len(D) :
       /\ D[i].name \notin SpecDefaultNames
       /\ HasName(remote, D[i].name)
       /\ SameAttributes(D[i], RemoteEntry(D[i].name))

\* C3: delete requests go only to default names present in the remote set, at
\* most one each, and once the deletion phase is over each of those names has
\* had exactly one.
C3_DeletesExactlyPresentDefaults ==
  /\ \A k \in 1..Len(log) :
       log[k].method = "DELETE" =>
         /\ log[k].name \in SpecDefaultNames
         /\ HasName(remote, log[k].name)
         /\ Len(Deletes(log[k].name)) = 1
  /\ DeletionOver =>
       \A n \in SpecDefaultNames : HasName(remote, n) => Len(Deletes(n)) = 1

\* C3 witness: a completed run that deleted a default label its config names,
\* and whose remote held a non-default label absent from the config.
C3_Witness ==
  LET D == DesiredLabelSet(fs) IN
  /\ pc = "completed"
  /\ \E n \in SpecDefaultNames :
       /\ Len(Deletes(n)) = 1
       /\ \E i \in 1..Len(D) : D[i].name = n
  /\ \E k \in 1..Len(remote) :
       /\ remote[k].name \notin SpecDefaultNames
       /\ \A i \in 1..Len(D) : D[i].name # remote[k].name

\* C4: in a completed run, every entry of the DesiredLabelSet found in the
\* remote set with another color or description got exactly one update request,
\* sent to its name with body {new_name, color, description}, and no create.
C4_OneUpdatePerChangedEntry ==
  LET D == DesiredLabelSet(fs) IN
  pc = "completed" =>
    \A i \in 1..Len(D) :
      (/\ HasName(remote, D[i].name)
       /\ ~SameAttributes(D[i], RemoteEntry(D[i].name)))
      => /\ Len(Updates(D[i].name)) = 1
         /\ Updates(D[i].name)[1].body =
              << [new_name |-> D[i].name,
                  color |-> D[i].color,
                  description |-> D[i].description] >>
         /\ Creates(D[i].name) = <<>>

\* C5: after a completed run whose requests all succeeded, every label of the
\* DesiredLabelSet is on the remote with the config's color and description.
C5_RemoteMatchesConfig ==
  LET D == DesiredLabelSet(fs) IN
  (pc = "completed" /\ \A k \in 1..Len(log) : Succeeded(log[k])) =>
    \A i \in 1..Len(D) :
      \E k \in 1..Len(store) :
        /\ store[k].name = D[i].name
        /\ SameAttributes(D[i], store[k])

\* C6: a run that meets a fatal condition (an unset environment variable, a
\* failed listing page, no usable config file, a config record without a name)
\* has sent no create, update or delete request.
C6_FatalBeforeAnyMutation ==
  (error # "none" \/ (ConfigRead /\ ConfigFatal(fs))) => Mutations = <<>>

\* C7: a run that got past fetching and loading reports completion having
\* processed every default name once and every entry of the DesiredLabelSet
\* once.
C7_EveryEntryProcessed ==
  LET D == DesiredLabelSet(fs) IN
  pc = "completed" =>
    /\ di = Cardinality(SpecDefaultNames) + 1
    /\ li = Len(D) + 1

\* C8: the labels loaded are the normalized records of the selected files, in
\* file order and in-file order.
C8_LoadedIsDesiredLabelSet ==
  LET D == DesiredLabelSet(fs) IN
  (pc = "delete_default_labels" /\ di = 1) => labels = D

\* C9: pages 1, 2, 3, ... of size 100 are requested in order; every request
\* but the last returned a non-empty page with status 200; the fetch returns
\* exactly when a page comes back empty, with the pages concatenated in order
\* and reduced to name, color and description; a non-200 page ends the run.
C9_Pagination ==
  /\ \A k \in 1..Len(Gets) : Gets[k].page = k /\ Gets[k].per_page = 100
  /\ \A k \in 1..(Len(Gets) - 1) : Gets[k].status = 200 /\ Gets[k].resp # <<>>
  /\ (Gets # <<>> /\ Gets[Len(Gets)].status = 200 /\ Gets[Len(Gets)].resp = <<>>) =>
       pc # "fetch"
  /\ (Gets # <<>> /\ Gets[Len(Gets)].status # 200) =>
       pc = "exit" /\ error = "fetch" /\ Mutations = <<>>
  /\ FetchReturned =>
       /\ Gets # <<>>
       /\ Gets[Len(Gets)].status = 200 /\ Gets[Len(Gets)].resp = <<>>
       /\ github_labels =
            Flatten([k \in 1..Len(Gets) |->
                       [j \in 1..Len(Gets[k].resp) |->
                          [name |-> Gets[k].resp[j].name,
                           color |-> Gets[k].resp[j].color,
                           description |-> Gets[k].resp[j].description]]])
       /\ Len(github_labels) = Len(remote)

\* C9 witness: the fetch returned after two non-empty pages and an empty one.
C9_Witness ==
  /\ FetchReturned
  /\ Len(Gets) = 3
  /\ Len(github_labels) = 2

\* C10: for a default name in both the remote set and the DesiredLabelSet, a
\* completed run sent the delete first, then an update that failed, and no
\* create.
C10_UpdateAfterDelete ==
  LET D == DesiredLabelSet(fs) IN
  pc = "completed" =>
    \A n \in SpecDefaultNames :
      (HasName(remote, n) /\ \E i \in 1..Len(D) : D[i].name = n)
      => /\ \E a, b \in 1..Len(log) :
              /\ a < b
              /\ log[a].method = "DELETE" /\ log[a].name = n
              /\ log[b].method = "PATCH" /\ log[b].name = n /\ log[b].status # 200
         /\ Creates(n) = <<>>

\* Under FairSpec every run ends: it exits or reports completion.
RunTerminates == <>(pc \in {"exit", "completed"})

====
